---- MODULE Spec2Model ----
(***************************************************************************)
(* A model of repo2docx (src/index.js): the identifier parser, the         *)
(* ignore-pattern engine, the content classifier, the archive walk and the *)
(* staged run of repo2docx().                                              *)
(*                                                                         *)
(* A JavaScript string is modelled as the sequence of its characters, each *)
(* a one-character string; LF, CR, TAB and NUL stand for the line feed,    *)
(* carriage return, tab and U+0000 characters.                             *)
(***************************************************************************)
EXTENDS Integers, Sequences, FiniteSets, TLC

LF == "\n"
CR == "\r"
TAB == "\t"
NUL == "\\0"

(***************************************************************************)
(* String primitives of JavaScript used by the source.                     *)
(***************************************************************************)

\* s.startsWith(p)
StartsWith(s, p) ==
  /\ Len(p) <= Len(s)
  /\ SubSeq(s, 1, Len(p)) = p

\* s.endsWith(p)
EndsWith(s, p) ==
  /\ Len(p) <= Len(s)
  /\ SubSeq(s, Len(s) - Len(p) + 1, Len(s)) = p

\* 0 when sub does not occur in s, else the least (1-based) index where it does
IndexOf(s, sub) ==
  LET hits == { i \in 1..(Len(s) - Len(sub) + 1) : SubSeq(s, i, i + Len(sub) - 1) = sub }
  IN  IF hits = {} THEN 0 ELSE CHOOSE i \in hits : \A j \in hits : i <= j

\* s.includes(sub)
Includes(s, sub) ==
  \/ Len(sub) = 0
  \/ IndexOf(s, sub) > 0

\* s.replace(sub, "") with a string sub: the first occurrence only
RemoveFirst(s, sub) ==
  LET i == IndexOf(s, sub)
  IN  IF Len(sub) = 0 \/ i = 0 THEN s
      ELSE SubSeq(s, 1, i - 1) \o SubSeq(s, i + Len(sub), Len(s))

\* s.split(c) for a one-character separator c: never empty, keeps empty pieces
RECURSIVE SplitOn(_, _)
SplitOn(s, c) ==
  LET hits == { i \in 1..Len(s) : s[i] = c }
  IN  IF hits = {} THEN << s >>
      ELSE LET i == CHOOSE k \in hits : \A j \in hits : k <= j
           IN  << SubSeq(s, 1, i - 1) >> \o SplitOn(SubSeq(s, i + 1, Len(s)), c)

\* s.split(/\r?\n/)
RECURSIVE SplitLines(_)
SplitLines(s) ==
  LET hits == { i \in 1..Len(s) : s[i] = LF }
  IN  IF hits = {} THEN << s >>
      ELSE LET i == CHOOSE k \in hits : \A j \in hits : k <= j
               e == IF i > 1 /\ s[i - 1] = CR THEN i - 2 ELSE i - 1
           IN  << SubSeq(s, 1, e) >> \o SplitLines(SubSeq(s, i + 1, Len(s)))

(***************************************************************************)
(* parseRepoIdentifier                                                     *)
(***************************************************************************)

\* The four prefixes /^https?:\/\/(www\.)?github\.com\// can match.
UrlPrefixes ==
  { <<"h","t","t","p",":","/","/","g","i","t","h","u","b",".","c","o","m","/">>, <<"h","t","t","p","s",":","/","/","g","i","t","h","u","b",".","c","o","m","/">>,
    <<"h","t","t","p",":","/","/","w","w","w",".","g","i","t","h","u","b",".","c","o","m","/">>, <<"h","t","t","p","s",":","/","/","w","w","w",".","g","i","t","h","u","b",".","c","o","m","/">> }

\* .replace(/^https?:\/\/(www\.)?github\.com\//, "")
StripUrlPrefix(s) ==
  LET ps == { p \in UrlPrefixes : StartsWith(s, p) }
  IN  IF ps = {} THEN s
      ELSE LET p == CHOOSE q \in ps : TRUE
           IN  SubSeq(s, Len(p) + 1, Len(s))

\* Mutant: the ".git" suffix is kept.
StripGitSuffix_keep(s) == s

\* .replace(/\.git$/, "")
StripGitSuffix(s) ==
  IF EndsWith(s, <<".","g","i","t">>) THEN SubSeq(s, 1, Len(s) - 4) ELSE s

\* The thrown Error("Invalid repository identifier. ...")
InvalidIdentifier == [ok |-> FALSE, owner |-> << >>, repo |-> << >>]

RepositoryRef(o, r) == [ok |-> TRUE, owner |-> o, repo |-> r]

ParseUrlBranch(repoIdentifier) ==
  LET urlPath == SplitOn(StripGitSuffix(StripUrlPrefix(repoIdentifier)), "/")
  IN  IF Len(urlPath) >= 2
      THEN RepositoryRef(urlPath[1], urlPath[2])
      ELSE InvalidIdentifier

ParseShorthandBranch(repoIdentifier) ==
  LET parts == SplitOn(repoIdentifier, "/")
      owner == parts[1]
      repo  == parts[2]
  IN  IF owner # << >> /\ repo # << >>
      THEN RepositoryRef(owner, repo)
      ELSE InvalidIdentifier

parseRepoIdentifier(repoIdentifier) ==
  IF Includes(repoIdentifier, <<"g","i","t","h","u","b",".","c","o","m">>)
  THEN ParseUrlBranch(repoIdentifier)
  ELSE IF Includes(repoIdentifier, <<"/">>)
       THEN ParseShorthandBranch(repoIdentifier)
       ELSE InvalidIdentifier

(***************************************************************************)
(* isValidTextContent                                                      *)
(***************************************************************************)

\* (content.match(/\0/g) || []).length
NullCount(content) == Cardinality({ i \in 1..Len(content) : content[i] = NUL })

\* nullByteRatio < 0.01 for nullByteRatio = k / L in IEEE doubles.  For L = 0
\* the ratio is 0/0 = NaN and every comparison with NaN is false.  For L > 0
\* correctly rounded division is monotone and maps the real 1/100 to the
\* double 0.01, and no quotient of string-sized integers below 1/100 rounds up
\* to it, so the comparison is that of the exact 100 * k < L.
RatioBelowThreshold(k, L) ==
  IF L = 0 THEN FALSE ELSE 100 * k < L

isValidTextContent(content) == RatioBelowThreshold(NullCount(content), Len(content))

(***************************************************************************)
(* addFileContent and the paragraphs repo2docx builds                      *)
(***************************************************************************)

Paragraph(style, text) == [style |-> style, text |-> text]

\* text: line || " "
BodyParagraph(line) == Paragraph("body", IF line = << >> THEN <<" ">> ELSE line)

\* The paragraphs addFileContent pushes, in order.
FileContentParagraphs(content) ==
  LET lines == SplitLines(content)
  IN  [i \in 1..Len(lines) |-> BodyParagraph(lines[i])]

HeadingParagraph(cleanPath) == Paragraph("heading2", cleanPath)

SeparatorText == <<"-","-","-","-","-","-","-","-","-","-","-","-","-","-","-","-","-","-","-","-","-","-","-","-","-","-","-","-","-","-","-","-","-","-","-","-","-","-","-","-","-","-","-","-","-","-","-","-","-","-","-","-","-","-","-","-","-","-","-","-","-","-","-","-","-","-","-","-","-","-">>

SeparatorParagraph == Paragraph("separator", SeparatorText)

\* new Date().toLocaleString(): a value of the environment
Timestamp == <<"1","/","1","/","2","0","2","5",","," ","1","2",":","0","0",":","0","0"," ","A","M">>

TitleParagraphs(owner, repo, branch) ==
  << Paragraph("heading1", <<"R","e","p","o","s","i","t","o","r","y",":"," ">> \o owner \o <<"/">> \o repo),
     Paragraph("title", <<"B","r","a","n","c","h",":"," ">> \o branch),
     Paragraph("title", <<"G","e","n","e","r","a","t","e","d"," ","o","n",":"," ">> \o Timestamp) >>

(***************************************************************************)
(* isBinaryFile                                                            *)
(***************************************************************************)

UpperCase == <<"A","B","C","D","E","F","G","H","I","J","K","L","M","N","O","P","Q","R","S","T","U","V","W","X","Y","Z">>
LowerCase == <<"a","b","c","d","e","f","g","h","i","j","k","l","m","n","o","p","q","r","s","t","u","v","w","x","y","z">>

LowerChar(c) ==
  LET hits == { i \in 1..Len(UpperCase) : UpperCase[i] = c }
  IN  IF hits = {} THEN c ELSE LowerCase[CHOOSE i \in hits : TRUE]

\* filename.toLowerCase()
ToLowerCase(s) == [i \in 1..Len(s) |-> LowerChar(s[i])]

binaryExtensions ==
  { <<".","j","p","g">>, <<".","j","p","e","g">>, <<".","p","n","g">>, <<".","g","i","f">>, <<".","b","m","p">>, <<".","i","c","o">>, <<".","p","d","f">>,
    <<".","e","x","e">>, <<".","d","l","l">>, <<".","s","o">>, <<".","d","y","l","i","b">>, <<".","z","i","p">>, <<".","t","a","r">>, <<".","g","z">>,
    <<".","r","a","r">>, <<".","7","z">>, <<".","m","p","3">>, <<".","m","p","4">>, <<".","a","v","i">>, <<".","m","o","v">>, <<".","m","p","g">>,
    <<".","t","t","f">>, <<".","w","o","f","f">>, <<".","c","l","a","s","s">>, <<".","p","y","c">>, <<".","p","y","d">>, <<".","o">>, <<".","o","b","j">> }

isBinaryFile(filename) ==
  LET lower == ToLowerCase(filename)
  IN  \E ext \in binaryExtensions : EndsWith(lower, ext)

(***************************************************************************)
(* parseDocxIgnore                                                         *)
(***************************************************************************)

WhiteSpace == { " ", TAB, CR, LF }

\* line.trim()
RECURSIVE Trim(_)
Trim(s) ==
  IF s = << >> THEN s
  ELSE IF s[1] \in WhiteSpace THEN Trim(Tail(s))
  ELSE IF s[Len(s)] \in WhiteSpace THEN Trim(SubSeq(s, 1, Len(s) - 1))
  ELSE s

\* .filter(p) on a sequence
RECURSIVE KeptLines(_)
KeptLines(lines) ==
  IF lines = << >> THEN << >>
  ELSE LET line == Head(lines)
       IN  IF Trim(line) # << >> /\ ~StartsWith(line, <<"#">>)
           THEN << Trim(line) >> \o KeptLines(Tail(lines))
           ELSE KeptLines(Tail(lines))

parseDocxIgnore(content) ==
  IF content = << >> THEN << >> ELSE KeptLines(SplitLines(content))

(***************************************************************************)
(* shouldIgnorePath: minimatch(filePath, pattern, { matchBase: true })      *)
(*                                                                         *)
(* The glob language modelled is the one the built-in patterns and the     *)
(* modelled ignore files use: literal characters, "*", "?", a "**" path     *)
(* segment, a leading "!" (negation) and a leading "#" (comment).  Braces, *)
(* character classes and extglobs are not in the alphabet.  Path segments  *)
(* "." and ".." do not occur in archive paths.                             *)
(***************************************************************************)

\* p.split(/\/+/): split on "/", runs of "/" counted once
SlashSplit(s) ==
  LET parts == SplitOn(s, "/")
      keep  == { i \in 1..Len(parts) : parts[i] # << >> \/ i = 1 \/ i = Len(parts) }
      RECURSIVE Pick(_)
      Pick(i) == IF i > Len(parts) THEN << >>
                 ELSE IF i \in keep THEN << parts[i] >> \o Pick(i + 1)
                 ELSE Pick(i + 1)
  IN  Pick(1)

GlobStar == <<"*","*">>

HasMagic(seg) == \E i \in 1..Len(seg) : seg[i] \in { "*", "?" }

\* A file segment that "*" and "**" refuse without the dot option.
DotSegment(seg) == seg # << >> /\ seg[1] = "."

\* The segment's regular expression: "*" is [^/]*?, "?" is [^/].
RECURSIVE GlobMatch(_, _)
GlobMatch(f, p) ==
  IF p = << >> THEN f = << >>
  ELSE IF Head(p) = "*"
       THEN \/ GlobMatch(f, Tail(p))
            \/ f # << >> /\ GlobMatch(Tail(f), p)
  ELSE IF Head(p) = "?"
       THEN f # << >> /\ GlobMatch(Tail(f), Tail(p))
  ELSE f # << >> /\ Head(f) = Head(p) /\ GlobMatch(Tail(f), Tail(p))

\* One path segment against one pattern segment: a string comparison for a
\* pattern without magic; else the regular expression, which matches no empty
\* segment and matches a dot file only when the pattern itself starts with ".".
SegmentMatch(f, p) ==
  IF ~HasMagic(p) THEN f = p
  ELSE /\ f # << >>
       /\ DotSegment(f) => Head(p) = "."
       /\ GlobMatch(f, p)

\* Minimatch.matchOne(file, pattern, partial = false)
RECURSIVE MatchOne(_, _)
MatchOne(file, pattern) ==
  IF pattern = << >>
  THEN file = << >> \/ file = << << >> >>
  ELSE IF file = << >> THEN FALSE
  ELSE IF Head(pattern) = GlobStar
       THEN IF Len(pattern) = 1
            THEN \A i \in 1..Len(file) : ~DotSegment(file[i])
            ELSE \E fr \in 1..Len(file) :
                   /\ \A k \in 1..(fr - 1) : ~DotSegment(file[k])
                   /\ MatchOne(SubSeq(file, fr, Len(file)), Tail(pattern))
  ELSE /\ SegmentMatch(Head(file), Head(pattern))
       /\ MatchOne(Tail(file), Tail(pattern))

\* The last non-empty segment of the path (what matchBase compares).
BaseName(ff) ==
  LET full == { i \in 1..Len(ff) : ff[i] # << >> }
  IN  IF full = {} THEN ff[Len(ff)]
      ELSE ff[CHOOSE i \in full : \A j \in full : j <= i]

\* Minimatch.parseNegate: the pattern without its leading "!"s
RECURSIVE StripNegation(_)
StripNegation(p) == IF p # << >> /\ Head(p) = "!" THEN StripNegation(Tail(p)) ELSE p

Negated(p) == (Len(p) - Len(StripNegation(p))) % 2 = 1

\* minimatch(filePath, pattern, { matchBase: true })
minimatch(filePath, pattern) ==
  IF StartsWith(pattern, <<"#">>) THEN FALSE
  ELSE IF pattern = << >> THEN filePath = << >>
  ELSE LET glob == SlashSplit(StripNegation(pattern))
           ff   == SlashSplit(filePath)
           file == IF Len(glob) = 1 THEN << BaseName(ff) >> ELSE ff
       IN  MatchOne(file, glob) # Negated(pattern)

shouldIgnorePath(filePath, ignorePatterns) ==
  \E i \in 1..Len(ignorePatterns) : minimatch(filePath, ignorePatterns[i])

getDefaultIgnorePatterns ==
  << <<".","g","i","t","/","*","*">>, <<".","g","i","t","i","g","n","o","r","e">>, <<".","g","i","t","a","t","t","r","i","b","u","t","e","s">>, <<".","g","i","t","m","o","d","u","l","e","s">>,
     <<".","g","i","t","k","e","e","p">>, <<".","g","i","t","h","u","b","/","*","*">>,
     <<"n","o","d","e","_","m","o","d","u","l","e","s","/","*","*">>, <<"p","a","c","k","a","g","e","-","l","o","c","k",".","j","s","o","n">>, <<"y","a","r","n",".","l","o","c","k">>,
     <<"n","p","m","-","d","e","b","u","g",".","l","o","g","*">>, <<"y","a","r","n","-","d","e","b","u","g",".","l","o","g","*">>, <<"y","a","r","n","-","e","r","r","o","r",".","l","o","g","*">>,
     <<".","v","s","c","o","d","e","/","*","*">>, <<".","i","d","e","a","/","*","*">>, <<"*",".","s","u","b","l","i","m","e","-","*">>, <<".","e","d","i","t","o","r","c","o","n","f","i","g">>,
     <<"d","i","s","t","/","*","*">>, <<"b","u","i","l","d","/","*","*">>, <<"o","u","t","/","*","*">>, <<".","b","a","b","e","l","r","c">>, <<".","e","s","l","i","n","t","r","c","*">>,
     <<".","p","r","e","t","t","i","e","r","r","c","*">>, <<"t","s","c","o","n","f","i","g",".","j","s","o","n">>, <<"j","s","c","o","n","f","i","g",".","j","s","o","n">>,
     <<"w","e","b","p","a","c","k",".","c","o","n","f","i","g",".","j","s">>, <<"r","o","l","l","u","p",".","c","o","n","f","i","g",".","j","s">>,
     <<"l","o","g","s","/","*","*">>, <<"*",".","l","o","g">>, <<"t","e","m","p","/","*","*">>, <<"t","m","p","/","*","*">>,
     <<"R","E","A","D","M","E",".","m","d">>, <<"C","H","A","N","G","E","L","O","G",".","m","d">>, <<"L","I","C","E","N","S","E">>, <<"L","I","C","E","N","S","E",".","m","d">>,
     <<"A","U","T","H","O","R","S">>, <<"C","O","N","T","R","I","B","U","T","O","R","S">>,
     <<".","D","S","_","S","t","o","r","e">>, <<"T","h","u","m","b","s",".","d","b">> >>

(***************************************************************************)
(* The archives the hosting service may return                             *)
(***************************************************************************)

\* An archive member before the root directory is prefixed to its name.
\* corrupt: entry.getData() throws for it (bad CRC, unsupported method).
Member(path, isDirectory, data, corrupt) ==
  [path |-> path, isDirectory |-> isDirectory, data |-> data, corrupt |-> corrupt]

File(path, data) == Member(path, FALSE, data, FALSE)

Dir(path) == Member(path, TRUE, << >>, FALSE)

Rep(c, n) == [i \in 1..n |-> c]

\* Largest number of members of a generated archive.
MaxEntries == 2

\* Members generated archives are drawn from, in archive order.
MasterMembers ==
  << Dir(<< >>),
     File(<<"R","E","A","D","M","E",".","m","d">>, <<"#"," ","r","e","a","d","m","e">>),
     Dir(<<"s","r","c","/">>),
     File(<<"s","r","c","/","i","n","d","e","x",".","j","s">>, <<"a",CR,LF,"b",LF,LF,"c">>),
     File(<<"n","o","d","e","_","m","o","d","u","l","e","s","/","x","/","i","n","d","e","x",".","j","s">>, <<"x">>),
     File(<<"l","o","g","o",".","p","n","g">>, <<"a","s","c","i","i">>),
     File(<<"b","u","i","l","d","/","S","e","t","u","p",".","E","X","E">>, <<"M","Z">>),
     File(<<"e","m","p","t","y",".","t","x","t">>, << >>),
     File(<<"b","l","o","b",".","d","a","t">>, <<NUL,"a">>),
     Member(<<"b","r","o","k","e","n",".","t","x","t">>, FALSE, <<"z","z">>, TRUE),
     File(<<"l","i","b","/","a",".","t","x","t">>, <<"o","n","e",LF,"t","w","o">>),
     File(<<".","d","o","c","x","i","g","n","o","r","e">>, <<"#"," ","o","w","n"," ","r","u","l","e","s",LF,LF," ","l","i","b","/","*","*"," ",CR,LF,".","d","o","c","x","i","g","n","o","r","e",LF>>) >>

RECURSIVE PickMembers(_, _)
PickMembers(S, i) ==
  IF i > Len(MasterMembers) THEN << >>
  ELSE IF i \in S THEN << MasterMembers[i] >> \o PickMembers(S, i + 1)
  ELSE PickMembers(S, i + 1)

GeneratedArchives ==
  { PickMembers(S, 1) : S \in { T \in SUBSET (1..Len(MasterMembers)) : Cardinality(T) <= MaxEntries } }

\* The end-to-end archive of the specification, without and with an ignore file.
ScenarioPlain ==
  << Dir(<< >>),
     File(<<"R","E","A","D","M","E",".","m","d">>, <<"#"," ","r","e","a","d","m","e">>),
     Dir(<<"s","r","c","/">>),
     File(<<"s","r","c","/","i","n","d","e","x",".","j","s">>, <<"l","i","n","e","1",LF,"l","i","n","e","2">>),
     File(<<"n","o","d","e","_","m","o","d","u","l","e","s","/","x","/","i","n","d","e","x",".","j","s">>, <<"x">>),
     File(<<"l","o","g","o",".","p","n","g">>, <<"a","s","c","i","i">>) >>

ScenarioDocxIgnore == ScenarioPlain \o << File(<<".","d","o","c","x","i","g","n","o","r","e">>, <<"s","r","c","/","*","*">>) >>

\* The boundary buffers: 10 and 9 null characters in 1000, 1 in 100 and in 101.
ScenarioBoundary ==
  << File(<<"t","e","n",".","t","x","t">>, Rep(NUL, 10) \o Rep("a", 990)),
     File(<<"n","i","n","e",".","t","x","t">>, Rep(NUL, 9) \o Rep("a", 991)),
     File(<<"h","u","n","d","r","e","d",".","t","x","t">>, Rep(NUL, 1) \o Rep("a", 99)),
     File(<<"h","u","n","d","r","e","d","1",".","t","x","t">>, Rep(NUL, 1) \o Rep("a", 100)) >>

\* An ignore file that cannot be read.
ScenarioBrokenIgnore ==
  << Member(<<".","d","o","c","x","i","g","n","o","r","e">>, FALSE, <<"s","r","c","/","*","*">>, TRUE), File(<<"s","r","c","/","i","n","d","e","x",".","j","s">>, <<"a">>) >>

Archives ==
  GeneratedArchives \cup
  { ScenarioPlain, ScenarioDocxIgnore, ScenarioBoundary, ScenarioBrokenIgnore }

(***************************************************************************)
(* repo2docx                                                               *)
(***************************************************************************)

\* options.branch, at its default
branch == <<"m","a","i","n">>

\* `${repo}-${branch}/`
RootPrefix(repo) == repo \o <<"-">> \o branch \o <<"/">>

\* zip.getEntries() of the archive the service builds for (repo, branch)
ZipEntries(archive, repo) ==
  [i \in 1..Len(archive) |->
     [entryName   |-> RootPrefix(repo) \o archive[i].path,
      isDirectory |-> archive[i].isDirectory,
      data        |-> archive[i].data,
      corrupt     |-> archive[i].corrupt]]

\* zipEntries.find(entry => entry.entryName.endsWith(`${repo}-${branch}/.docxignore`)):
\* the index of the first such entry, 0 when there is none
DocxIgnoreIndex(entries, repo) ==
  LET hits == { i \in 1..Len(entries) :
                  EndsWith(entries[i].entryName, RootPrefix(repo) \o <<".","d","o","c","x","i","g","n","o","r","e">>) }
  IN  IF hits = {} THEN 0 ELSE CHOOSE i \in hits : \A j \in hits : i <= j

\* entry.entryName.replace(`${repo}-${branch}/`, "")
CleanPath(entry, repo) == RemoveFirst(entry.entryName, RootPrefix(repo))

\* [...defaultIgnorePatterns, ...customIgnorePatterns, ...ignorePaths]
CombinePatterns(custom, extra) == getDefaultIgnorePatterns \o custom \o extra

Outcome(verdict, read, pushed) == [verdict |-> verdict, read |-> read, pushed |-> pushed]

\* The paragraphs the try block pushes for a file that passed validation.
SectionParagraphs(cleanPath, content) ==
  << HeadingParagraph(cleanPath) >> \o FileContentParagraphs(content) \o << SeparatorParagraph >>

\* The try block once the content passed validation.  failAt = 0: no call
\* throws, the whole section is pushed and processedFiles++ is reached.
\* failAt = j > 0: building or pushing the j-th paragraph of the section
\* throws, so the j - 1 paragraphs before it stay in children and the catch
\* block counts the entry.
EmitSection(cleanPath, content, failAt) ==
  LET section == SectionParagraphs(cleanPath, content)
  IN  IF failAt = 0 THEN Outcome("processed", TRUE, section)
      ELSE Outcome("error", TRUE, SubSeq(section, 1, failAt - 1))

\* Mutant: the extension check runs before the ignore patterns.
Classify_binaryFirst(entry, cleanPath, patterns) ==
  IF isBinaryFile(cleanPath) THEN "binary"
  ELSE IF shouldIgnorePath(cleanPath, patterns) THEN "ignored"
  ELSE IF entry.corrupt THEN "error"
  ELSE IF ~isValidTextContent(entry.data) THEN "invalid"
  ELSE "text"

\* The checks of one iteration up to the validation, for a non-directory
\* entry: the verdict, or "text" when the entry goes on to be emitted.
Classify(entry, cleanPath, patterns) ==
  IF shouldIgnorePath(cleanPath, patterns) THEN "ignored"
  ELSE IF isBinaryFile(cleanPath) THEN "binary"
  ELSE IF entry.corrupt THEN "error"
  ELSE IF ~isValidTextContent(entry.data) THEN "invalid"
  ELSE "text"

\* entry.getData() is called once the ignore and extension checks passed.
ReadsData(class) == class \in { "error", "invalid", "text" }

\* One iteration of the loop over zipEntries.
ProcessEntry(entry, cleanPath, class, failAt) ==
  IF entry.isDirectory THEN Outcome("directory", FALSE, << >>)
  ELSE IF class = "text" THEN EmitSection(cleanPath, entry.data, failAt)
  ELSE Outcome(class, ReadsData(class), << >>)

\* The calls of the try block that may throw for the entry: none (0), or the
\* j-th paragraph of its section.
FailPoints(entry, class) ==
  IF ~entry.isDirectory /\ class = "text"
  THEN 0..(Len(SplitLines(entry.data)) + 2)
  ELSE {0}

\* Mutant: the catch block of an entry rethrows.
AfterEntryError_rethrow(continue) == "thrown"

\* The catch block of an entry: warn, count, and go on with the loop.
AfterEntryError(continue) == continue

\* Mutant: a rejection is swallowed and the run goes on.
AfterAwait_swallow(ok, next) == next

\* Where the run goes when the metadata check, the download or the
\* extraction resolves (ok) or rejects: the outer catch rethrows.
AfterAwait(ok, next) == IF ok THEN next ELSE "thrown"

VARIABLES
  repoIdentifier,            \* the first argument of repo2docx
  ignorePaths,               \* options.ignorePaths
  pc,                        \* where the run is
  ref,                       \* what parseRepoIdentifier returned
  zipEntries,                \* zip.getEntries()
  allIgnorePatterns,
  children,                  \* the document paragraphs
  cursor,                    \* index of the entry the loop visits next
  processedFiles,
  skippedFilesByIgnore,
  skippedFilesByBinary,
  skippedFilesByValidation,
  skippedFilesByError,
  output,                    \* the paragraphs of the file written
  written,                   \* fs.writeFileSync was reached and returned
  log,                       \* history: the stages started, in order
  thrownAt,                  \* history: the stage whose error reached the caller
  failed,                    \* history: the stages in which a fatal failure occurred
  verdicts,                  \* history: the verdict of each entry visited
  getDataCalls               \* history: entry.getData() calls per entry

vars ==
  << repoIdentifier, ignorePaths, pc, ref, zipEntries, allIgnorePatterns, children,
     cursor, processedFiles, skippedFilesByIgnore, skippedFilesByBinary,
     skippedFilesByValidation, skippedFilesByError, output, written, log, thrownAt,
     failed, verdicts, getDataCalls >>

counters ==
  << processedFiles, skippedFilesByIgnore, skippedFilesByBinary,
     skippedFilesByValidation, skippedFilesByError >>

walkVars == << zipEntries, allIgnorePatterns, children, cursor, counters, verdicts, getDataCalls >>

InitWith(identifiers, extras) ==
  /\ repoIdentifier \in identifiers
  /\ ignorePaths \in extras
  /\ pc = "start"
  /\ ref = InvalidIdentifier
  /\ zipEntries = << >>
  /\ allIgnorePatterns = << >>
  /\ children = << >>
  /\ cursor = 1
  /\ processedFiles = 0
  /\ skippedFilesByIgnore = 0
  /\ skippedFilesByBinary = 0
  /\ skippedFilesByValidation = 0
  /\ skippedFilesByError = 0
  /\ output = << >>
  /\ written = FALSE
  /\ log = << >>
  /\ thrownAt = "none"
  /\ failed = {}
  /\ verdicts = << >>
  /\ getDataCalls = << >>

\* const { owner, repo } = parseRepoIdentifier(repoIdentifier), outside the try
Parse ==
  /\ pc = "start"
  /\ ref' = parseRepoIdentifier(repoIdentifier)
  /\ log' = Append(log, "parse")
  /\ pc' = IF ref'.ok THEN "access" ELSE "thrown"
  /\ thrownAt' = IF ref'.ok THEN thrownAt ELSE "parse"
  /\ failed' = IF ref'.ok THEN failed ELSE failed \cup { "parse" }
  /\ UNCHANGED << repoIdentifier, ignorePaths, walkVars, output, written >>

\* await octokit.repos.get({ owner, repo })
AccessCheck ==
  /\ pc = "access"
  /\ \E ok \in BOOLEAN :
       /\ pc' = AfterAwait(ok, "fetch")
       /\ thrownAt' = IF pc' = "thrown" THEN "access" ELSE thrownAt
       /\ failed' = IF ok THEN failed ELSE failed \cup { "access" }
  /\ log' = Append(log, "access")
  /\ UNCHANGED << repoIdentifier, ignorePaths, ref, walkVars, output, written >>

\* await axios.get(zipUrl, ...) rejects, or new AdmZip(...) throws
FetchFails ==
  /\ pc = "fetch"
  /\ pc' = AfterAwait(FALSE, "walk")
  /\ thrownAt' = IF pc' = "thrown" THEN "fetch" ELSE thrownAt
  /\ failed' = failed \cup { "fetch" }
  /\ log' = Append(log, "fetch")
  /\ UNCHANGED << repoIdentifier, ignorePaths, ref, walkVars, output, written >>

\* The download and everything up to the loop: the entries, the ignore file,
\* the combined patterns, the title paragraphs and the zeroed counters.
Fetch ==
  /\ pc = "fetch"
  /\ \E archive \in Archives :
     \E entries \in { ZipEntries(archive, ref.repo) } :
     \E d \in { DocxIgnoreIndex(entries, ref.repo) } :
     \E readOk \in { d = 0 \/ ~entries[d].corrupt } :
     \E custom \in { IF d = 0 \/ ~readOk THEN << >> ELSE parseDocxIgnore(entries[d].data) } :
           /\ zipEntries' = entries
           /\ getDataCalls' = [i \in 1..Len(entries) |-> IF i = d THEN 1 ELSE 0]
           /\ allIgnorePatterns' = IF readOk THEN CombinePatterns(custom, ignorePaths) ELSE << >>
           /\ children' = IF readOk THEN TitleParagraphs(ref.owner, ref.repo, branch) ELSE << >>
           /\ pc' = AfterAwait(readOk, IF Len(entries) = 0 THEN "write" ELSE "walk")
           /\ thrownAt' = IF pc' = "thrown" THEN "fetch" ELSE thrownAt
           /\ failed' = IF readOk THEN failed ELSE failed \cup { "fetch" }
  /\ log' = Append(log, "fetch")
  /\ UNCHANGED << repoIdentifier, ignorePaths, ref, cursor, counters, verdicts, output, written >>

\* Mutant: the binary skip forgets its skippedFilesByBinary++.
Bump_forgetsBinary(counter, verdict, outcome) ==
  IF outcome.verdict = verdict /\ verdict # "binary" THEN counter + 1 ELSE counter

\* counter++ on the path of the loop body that reaches it
Bump(counter, verdict, outcome) == IF outcome.verdict = verdict THEN counter + 1 ELSE counter

\* One iteration of for (const entry of zipEntries)
WalkEntry ==
  /\ pc = "walk"
  /\ cursor <= Len(zipEntries)
  /\ \E entry \in { zipEntries[cursor] } :
     \E cleanPath \in { CleanPath(entry, ref.repo) } :
     \E class \in { IF entry.isDirectory THEN "directory"
                    ELSE Classify(entry, cleanPath, allIgnorePatterns) } :
     \E failAt \in FailPoints(entry, class) :
     \E outcome \in { ProcessEntry(entry, cleanPath, class, failAt) } :
               /\ children' = children \o outcome.pushed
               /\ processedFiles' = Bump(processedFiles, "processed", outcome)
               /\ skippedFilesByIgnore' = Bump(skippedFilesByIgnore, "ignored", outcome)
               /\ skippedFilesByBinary' = Bump(skippedFilesByBinary, "binary", outcome)
               /\ skippedFilesByValidation' = Bump(skippedFilesByValidation, "invalid", outcome)
               /\ skippedFilesByError' = Bump(skippedFilesByError, "error", outcome)
               /\ verdicts' = Append(verdicts, outcome.verdict)
               /\ getDataCalls' = [getDataCalls EXCEPT ![cursor] = @ + (IF outcome.read THEN 1 ELSE 0)]
               /\ cursor' = cursor + 1
               /\ \E continue \in { IF cursor' > Len(zipEntries) THEN "write" ELSE "walk" } :
                    pc' = IF outcome.verdict = "error" THEN AfterEntryError(continue)
                          ELSE continue
               /\ thrownAt' = IF pc' = "thrown" THEN "walk" ELSE thrownAt
  /\ log' = IF log[Len(log)] = "walk" THEN log ELSE Append(log, "walk")
  /\ UNCHANGED << repoIdentifier, ignorePaths, ref, zipEntries, allIgnorePatterns, output, written, failed >>

\* await Packer.toBuffer(doc); fs.writeFileSync(outputPath, buffer)
Write ==
  /\ pc = "write"
  /\ \E ok \in BOOLEAN :
       /\ pc' = AfterAwait(ok, "done")
       /\ written' = (pc' = "done")
       /\ output' = IF pc' = "done" THEN children ELSE output
       /\ thrownAt' = IF pc' = "thrown" THEN "write" ELSE thrownAt
       /\ failed' = IF ok THEN failed ELSE failed \cup { "write" }
  /\ log' = Append(log, "write")
  /\ UNCHANGED << repoIdentifier, ignorePaths, ref, walkVars >>

\* The identifiers and extra patterns the runs are started with.
RunIdentifiers == { <<"h","t","t","p","s",":","/","/","w","w","w",".","g","i","t","h","u","b",".","c","o","m","/","o","/","r",".","g","i","t">>, <<"n","o","t","-","a","-","r","e","p","o">> }

IgnorePathOptions == { << >>, << <<"*",".","d","a","t">> >> }

Init == InitWith(RunIdentifiers, IgnorePathOptions)

Next == Parse \/ AccessCheck \/ FetchFails \/ Fetch \/ WalkEntry \/ Write

Spec == Init /\ [][Next]_vars

(***************************************************************************)
(* The identifier parser on its own: the inputs and the run that parses    *)
(***************************************************************************)

\* Owner and repository names without "/".
Names == { <<"o">>, <<"m","y","-","o","r","g">>, <<"r">>, <<"g","i","t","h","u","b",".","c","o","m">>, <<"x",".","g","i","t">>, <<".","g","i","t">> }

\* The five spellings of the repository (O, R).
Forms(O, R) ==
  { O \o <<"/">> \o R,
    <<"h","t","t","p","s",":","/","/","g","i","t","h","u","b",".","c","o","m","/">> \o O \o <<"/">> \o R,
    <<"h","t","t","p","s",":","/","/","g","i","t","h","u","b",".","c","o","m","/">> \o O \o <<"/">> \o R \o <<".","g","i","t">>,
    <<"h","t","t","p","s",":","/","/","w","w","w",".","g","i","t","h","u","b",".","c","o","m","/">> \o O \o <<"/">> \o R,
    <<"h","t","t","p","s",":","/","/","w","w","w",".","g","i","t","h","u","b",".","c","o","m","/">> \o O \o <<"/">> \o R \o <<".","g","i","t">> }

FormInputs == UNION { Forms(O, R) : O \in Names, R \in Names }

\* Longest generated string over the characters "a" and "/".
MaxIdLen == 4

RawInputs == UNION { [1..n -> { "a", "/" }] : n \in 0..MaxIdLen }

\* URL spellings with a trailing slash, doubled slashes, no protocol, a path.
UrlEdgeInputs ==
  { <<"h","t","t","p","s",":","/","/","g","i","t","h","u","b",".","c","o","m","/","o","/">>, <<"h","t","t","p","s",":","/","/","g","i","t","h","u","b",".","c","o","m","/","/","r">>, <<"h","t","t","p","s",":","/","/","g","i","t","h","u","b",".","c","o","m","/","o","/","/","r">>,
    <<"h","t","t","p","s",":","/","/","g","i","t","h","u","b",".","c","o","m","/","o","/","r","/">>, <<"h","t","t","p","s",":","/","/","g","i","t","h","u","b",".","c","o","m","/","o">>, <<"h","t","t","p","s",":","/","/","g","i","t","h","u","b",".","c","o","m","/">>,
    <<"g","i","t","h","u","b",".","c","o","m","/","o","/","r">>, <<"g","i","t","h","u","b",".","c","o","m">>, <<"h","t","t","p",":","/","/","g","i","t","h","u","b",".","c","o","m","/","o","/","r">>,
    <<"h","t","t","p","s",":","/","/","g","i","t","h","u","b",".","c","o","m","/","o","/","r","/","t","r","e","e","/","m","a","i","n">>, <<"w","w","w",".","g","i","t","h","u","b",".","c","o","m","/","o","/","r",".","g","i","t">> }

ParseInputs == FormInputs \cup RawInputs \cup UrlEdgeInputs

InitParse == InitWith(ParseInputs, { << >> })

SpecParse == InitParse /\ [][Parse]_vars

(***************************************************************************)
(* Properties                                                              *)
(***************************************************************************)

Parsed == pc # "start"

\* The walk has started on some archive.
Fetched == "fetch" \in { log[i] : i \in 1..Len(log) } /\ "fetch" \notin failed

WalkOver == Fetched /\ cursor > Len(zipEntries)

Visited == 1..Len(verdicts)

VisitedFiles == { i \in Visited : ~zipEntries[i].isDirectory }

CountOf(verdict) == Cardinality({ i \in Visited : verdicts[i] = verdict })

CounterSum ==
  processedFiles + skippedFilesByIgnore + skippedFilesByBinary +
  skippedFilesByValidation + skippedFilesByError

PathOf(i) == CleanPath(zipEntries[i], ref.repo)

ParagraphsOfStyle(style) == { i \in 1..Len(children) : children[i].style = style }

C1_SumIsFilesVisited ==
  /\ Len(verdicts) = cursor - 1
  /\ CounterSum = Cardinality(VisitedFiles)
  /\ WalkOver => CounterSum = Cardinality({ i \in 1..Len(zipEntries) : ~zipEntries[i].isDirectory })

C1_StepAddsOne ==
  cursor' = cursor + 1 =>
    LET deltas == << processedFiles' - processedFiles,
                     skippedFilesByIgnore' - skippedFilesByIgnore,
                     skippedFilesByBinary' - skippedFilesByBinary,
                     skippedFilesByValidation' - skippedFilesByValidation,
                     skippedFilesByError' - skippedFilesByError >>
    IN  IF zipEntries[cursor].isDirectory
        THEN \A j \in 1..5 : deltas[j] = 0
        ELSE \E j \in 1..5 : deltas[j] = 1 /\ \A m \in (1..5) \ {j} : deltas[m] = 0

\* C1: after any prefix of the walk the five counters sum to the number of
\* non-directory entries visited (at the end: to the number in the archive),
\* and each step of the walk leaves the counters alone for a directory and
\* adds exactly 1 to exactly one of them for any other entry.
C1_Counters == [](C1_SumIsFilesVisited) /\ [][C1_StepAddsOne]_vars

C1_Witness ==
  /\ pc = "done"
  /\ \E i \in Visited : zipEntries[i].isDirectory
  /\ processedFiles >= 1
  /\ skippedFilesByIgnore >= 1
  /\ skippedFilesByBinary >= 1

\* The verdict of entry i had none of the calls of its try block thrown.
VerdictWithoutFailure(i) ==
  LET entry == zipEntries[i]
  IN  IF entry.isDirectory THEN "directory"
      ELSE ProcessEntry(entry, PathOf(i), Classify(entry, PathOf(i), allIgnorePatterns), 0).verdict

CountersMatchVerdicts ==
  /\ processedFiles = CountOf("processed")
  /\ skippedFilesByIgnore = CountOf("ignored")
  /\ skippedFilesByBinary = CountOf("binary")
  /\ skippedFilesByValidation = CountOf("invalid")
  /\ skippedFilesByError = CountOf("error")

\* The getData calls the walk made for entry i: all of them but the one
\* read of the ignore file before the walk.
WalkReads(i) == getDataCalls[i] - (IF i = DocxIgnoreIndex(zipEntries, ref.repo) THEN 1 ELSE 0)

\* The order of the checks for the entries visited: the counters count the
\* verdicts, an ignored entry is "ignored" whatever its extension, a binary
\* one not ignored is "binary", and only the others are read by the walk.
ChecksInOrder ==
  /\ CountersMatchVerdicts
  /\ \A i \in VisitedFiles :
       \E ignored \in { shouldIgnorePath(PathOf(i), allIgnorePatterns) } :
       \E binary \in { isBinaryFile(PathOf(i)) } :
         /\ ignored => verdicts[i] = "ignored"
         /\ (~ignored /\ binary) => verdicts[i] = "binary"
         /\ (ignored \/ binary) => WalkReads(i) = 0
         /\ (~ignored /\ ~binary) =>
              /\ verdicts[i] \in { "invalid", "error", "processed" }
              /\ WalkReads(i) = 1

\* getData was never called for a visited entry that is ignored or binary.
RejectedNeverRead ==
  \A i \in VisitedFiles :
    (verdicts[i] \in { "ignored", "binary" }) => getDataCalls[i] = 0

\* C3 as stated: ignore match, then binary extension, then decode and null
\* check, the first rejection final; an ignored entry counts only as
\* skipped-by-ignore, a binary one not ignored only as skipped-as-binary, and
\* getData is never called for an ignored or binary entry.
C3_NeverRead == Fetched => (ChecksInOrder /\ RejectedNeverRead)

\* C3 amended: the same order and counting; the walk never calls getData for
\* an ignored or binary entry, and the only read of such an entry is the one
\* read of the .docxignore entry before the walk, when that file is itself
\* ignored.
C3_WalkNeverReads == Fetched => ChecksInOrder

C3_Witness ==
  /\ WalkOver
  /\ \E i \in VisitedFiles, j \in VisitedFiles :
       /\ i = DocxIgnoreIndex(zipEntries, ref.repo)
       /\ verdicts[i] = "ignored"
       /\ getDataCalls[i] = 1
       /\ isBinaryFile(PathOf(j))
       /\ verdicts[j] = "ignored"
       /\ getDataCalls[j] = 0

\* The paragraphs of the blocks of the Included entries among the first n.
RECURSIVE BlocksUpTo(_)
BlocksUpTo(n) ==
  IF n = 0 THEN << >>
  ELSE BlocksUpTo(n - 1) \o
       (IF verdicts[n] = "processed"
        THEN SectionParagraphs(PathOf(n), zipEntries[n].data)
        ELSE << >>)

\* C4: children is the three title paragraphs followed by one block (heading
\* with the root-relative path, body lines, separator) per Included entry in
\* archive order, so headings = separators = processed counter and no skipped
\* entry, skipped-by-error included, contributes a paragraph.
C4_OnlyIncludedBlocks ==
  Fetched =>
    /\ children = TitleParagraphs(ref.owner, ref.repo, branch) \o BlocksUpTo(Len(verdicts))
    /\ Cardinality(ParagraphsOfStyle("heading2")) = processedFiles
    /\ Cardinality(ParagraphsOfStyle("separator")) = processedFiles

StageLogs ==
  { << >>, << "parse" >>, << "parse", "access" >>, << "parse", "access", "fetch" >>,
    << "parse", "access", "fetch", "walk" >>,
    << "parse", "access", "fetch", "walk", "write" >>,
    << "parse", "access", "fetch", "write" >> }

Started(stage) == \E i \in 1..Len(log) : log[i] = stage

\* C5: the stages start in the order parse, access check, fetch, walk, write,
\* each only after the one before succeeded; after an invalid identifier, a
\* failed access check or a failed fetch nothing further starts, no entry is
\* processed, nothing is written and the error is thrown to the caller.
C5_StagesInOrder ==
  /\ log \in StageLogs
  /\ Started("access") => ref.ok
  /\ Started("fetch") => "access" \notin failed
  /\ (Started("walk") \/ verdicts # << >>) => "fetch" \notin failed /\ Started("fetch")
  /\ Started("write") => WalkOver
  /\ \A stage \in { "parse", "access", "fetch" } :
       stage \in failed =>
         /\ log[Len(log)] = stage
         /\ pc = "thrown"
         /\ thrownAt = stage
         /\ verdicts = << >>
         /\ CounterSum = 0
         /\ ~written
         /\ output = << >>
  /\ written => pc = "done" /\ failed = {}

C5_Witness ==
  /\ pc = "thrown"
  /\ thrownAt = "fetch"
  /\ log = << "parse", "access", "fetch" >>
  /\ zipEntries = << >>

\* C6 as stated: for all non-empty O and R without "/", the five spellings
\* of (O, R) parse to {owner: O, repo: R}.
C6_AllNames ==
  Parsed =>
    \A O \in Names, R \in Names :
      repoIdentifier \in Forms(O, R) => ref = RepositoryRef(O, R)

\* C6 amended: the same for every R that does not end in ".git".
C6_NamesNotEndingGit ==
  Parsed =>
    \A O \in Names, R \in Names :
      (~EndsWith(R, <<".","g","i","t">>) /\ repoIdentifier \in Forms(O, R)) => ref = RepositoryRef(O, R)

C6_Witness ==
  /\ Parsed
  /\ repoIdentifier = <<"h","t","t","p","s",":","/","/","w","w","w",".","g","i","t","h","u","b",".","c","o","m","/","m","y","-","o","r","g","/","r",".","g","i","t">>
  /\ ref = RepositoryRef(<<"m","y","-","o","r","g">>, <<"r">>)

\* "A/B" with exactly one "/" and both sides non-empty
ShapeOwnerRepo(s) ==
  /\ Cardinality({ i \in 1..Len(s) : s[i] = "/" }) = 1
  /\ s[1] # "/"
  /\ s[Len(s)] # "/"

\* C7: an input without the host marker that is not of the shape "A/B" fails
\* with the invalid-identifier error.
C7_OtherShapesFail ==
  (Parsed /\ ~Includes(repoIdentifier, <<"g","i","t","h","u","b",".","c","o","m">>) /\ ~ShapeOwnerRepo(repoIdentifier))
    => ~ref.ok

\* The "/"-separated segments of the input, of its path for a URL.
SegmentsOf(s) ==
  IF Includes(s, <<"g","i","t","h","u","b",".","c","o","m">>)
  THEN SplitOn(StripGitSuffix(StripUrlPrefix(s)), "/")
  ELSE SplitOn(s, "/")

NonEmptySegments(s) == { i \in 1..Len(SegmentsOf(s)) : SegmentsOf(s)[i] # << >> }

\* C8: every RepositoryRef returned has a non-empty owner and repo, neither
\* containing "/", and an input with fewer than two non-empty segments fails
\* with the invalid-identifier error.
C8_RefWellFormed ==
  Parsed =>
    /\ ref.ok =>
         /\ ref.owner # << >>
         /\ ref.repo # << >>
         /\ ~Includes(ref.owner, <<"/">>)
         /\ ~Includes(ref.repo, <<"/">>)
    /\ Cardinality(NonEmptySegments(repoIdentifier)) < 2 => ~ref.ok

\* C9: an entry that reached the null check (neither ignored nor binary, its
\* content decoded) and whose section was emitted whole if at all, of length
\* L with k null characters, is skipped-as-invalid-text exactly when k >= 1
\* and 100 * k >= L, and Included otherwise, for every L, 0 included.
C9_RatioDecides ==
  Fetched =>
    \A i \in VisitedFiles :
      (verdicts[i] \in { "invalid", "processed" }) =>
         \E k \in { NullCount(zipEntries[i].data) } :
         \E L \in { Len(zipEntries[i].data) } :
           verdicts[i] = (IF k >= 1 /\ 100 * k >= L THEN "invalid" ELSE "processed")

HeadingTexts == { children[i].text : i \in ParagraphsOfStyle("heading2") }

\* C10: with no caller patterns, the scenario archive with a .docxignore
\* holding "src/**" ends with no Included entry, and the same archive without
\* the .docxignore ends with exactly one, src/index.js.
C10_Scenario ==
  (WalkOver /\ ignorePaths = << >> /\ skippedFilesByError = 0) =>
    /\ zipEntries = ZipEntries(ScenarioDocxIgnore, ref.repo) =>
         (processedFiles = 0 /\ HeadingTexts = {})
    /\ zipEntries = ZipEntries(ScenarioPlain, ref.repo) =>
         (processedFiles = 1 /\ HeadingTexts = { <<"s","r","c","/","i","n","d","e","x",".","j","s">> })

====
